---- MODULE Spec2Model ----
(***************************************************************************)
(* State-transition model of two FRAME pallets:                            *)
(*   pallets/erc20    - Balances / Allowance ledger (transfer,             *)
(*                      transfer_from, allowance)                          *)
(*   pallets/exchange - escrow order book over a MultiReservableCurrency   *)
(*                      (submit_order, take_order, cancel_order)           *)
(* Every dispatchable runs to completion; one action models one call.      *)
(***************************************************************************)
EXTENDS Integers, FiniteSets, Sequences, TLC

\* ------------------------------------------------------------------ bounds
\* Largest value of T::Balance in the model (stands for Balance::max_value()).
BalanceMax == 2
\* Largest value of T::OrderId in the model (stands for OrderId::max_value()).
OrderIdMax == 2
\* Number of counted calls a behaviour explores (see Counted).
MaxCalls == 2

Accounts == {"alice", "bob", "carol"}
Assets == {"A", "B"}

Modulus == BalanceMax + 1
Amounts == 0 .. BalanceMax
\* Amounts an order is submitted with: up to the genesis endowment.
OrderAmounts == {1, 2}
OrderIds == 0 .. OrderIdMax

\* Option<T>: None, and Some(v).
None == [some |-> FALSE]
Some(v) == [some |-> TRUE, val |-> v]

VARIABLES
    TotalSupply,   \* erc20 TotalSupply
    Balances,      \* erc20 Balances: account -> balance (ValueQuery, default 0)
    Allowance,     \* erc20 Allowance: (owner, spender) -> Option<amount>
    free,          \* T::Currency free balances: asset -> account -> amount
    reserved,      \* T::Currency reserved balances: asset -> account -> amount
    Orders,        \* exchange Orders: id -> Option<Option<order>> (None: no key)
    NextOrderId,   \* exchange NextOrderId (ValueQuery, default 0)
    call,          \* the last dispatched call and its arguments
    ret,           \* its result: "Ok" or the error name
    ncalls         \* number of counted calls dispatched so far

ledgerVars == <<TotalSupply, Balances, Allowance>>
currencyVars == <<free, reserved>>
exchangeVars == <<free, reserved, Orders, NextOrderId>>
vars == <<TotalSupply, Balances, Allowance, free, reserved, Orders, NextOrderId,
          call, ret, ncalls>>

\* ------------------------------------------------------------- arithmetic
\* `a + b` on T::Balance: the result keeps the type's width.
Add(a, b) == (a + b) % Modulus
\* `a - b` on T::Balance, kept exact so that an unguarded subtraction shows
\* as a negative balance.
Sub(a, b) == a - b

RECURSIVE SumOver(_, _)
SumOver(f, S) ==
    IF S = {} THEN 0
    ELSE LET x == CHOOSE y \in S : TRUE IN f[x] + SumOver(f, S \ {x})

Min(a, b) == IF a <= b THEN a ELSE b

\* ------------------------------------------------------------ erc20 pallet
NoCall == [op |-> "none"]

\* transfer_help without its balance check.
transfer_helpNoCheck(bal, from, to, value) ==
    LET b1 == [bal EXCEPT ![from] = Sub(bal[from], value)]
        b2 == [b1 EXCEPT ![to] = Add(b1[to], value)]
    IN [ok |-> TRUE, err |-> "Ok", bal |-> b2]

\* transfer_help reading to_balance before from's balance is written.
transfer_helpStaleRead(bal, from, to, value) ==
    IF bal[from] < value
    THEN [ok |-> FALSE, err |-> "InSufficientBalance", bal |-> bal]
    ELSE LET b1 == [bal EXCEPT ![from] = Sub(bal[from], value)]
             b2 == [b1 EXCEPT ![to] = Add(bal[to], value)]
         IN [ok |-> TRUE, err |-> "Ok", bal |-> b2]

\* transfer_help refusing a transfer of the whole balance (<= for <).
transfer_helpStrictGuard(bal, from, to, value) ==
    IF bal[from] <= value
    THEN [ok |-> FALSE, err |-> "InSufficientBalance", bal |-> bal]
    ELSE LET b1 == [bal EXCEPT ![from] = Sub(bal[from], value)]
             b2 == [b1 EXCEPT ![to] = Add(b1[to], value)]
         IN [ok |-> TRUE, err |-> "Ok", bal |-> b2]

\* transfer_help: the balance map after the call, or the error.

transfer_help(bal, from, to, value) ==
    IF bal[from] < value
    THEN [ok |-> FALSE, err |-> "InSufficientBalance", bal |-> bal]
    ELSE LET b1 == [bal EXCEPT ![from] = Sub(bal[from], value)]
             b2 == [b1 EXCEPT ![to] = Add(b1[to], value)]
         IN [ok |-> TRUE, err |-> "Ok", bal |-> b2]

transfer(who, to, value) ==
    LET r == transfer_help(Balances, who, to, value) IN
    /\ call' = [op |-> "transfer", from |-> who, to |-> to, value |-> value]
    /\ ret' = r.err
    /\ Balances' = r.bal
    /\ UNCHANGED <<TotalSupply, Allowance, free, reserved, Orders, NextOrderId>>

\* transfer_from gated on the stored allowance of (from, to), as a
\* conventional token contract does.
transfer_fromChecksAllowance(caller, from, to, value) ==
    LET from_balance == Balances[from]
        entry == Allowance[<<from, to>>]
    IN
    /\ call' = [op |-> "transfer_from", from |-> from, to |-> to, value |-> value]
    /\ IF from_balance < value \/ ~entry.some \/ entry.val < value
       THEN /\ ret' = "InSufficientAllowance"
            /\ UNCHANGED <<Balances, Allowance>>
       ELSE LET r == transfer_help(Balances, from, to, value) IN
            /\ Allowance' = [Allowance EXCEPT ![<<from, to>>] = Some(Sub(from_balance, value))]
            /\ Balances' = r.bal
            /\ ret' = r.err
    /\ UNCHANGED <<TotalSupply, free, reserved, Orders, NextOrderId>>

\* transfer_from writing the allowance from the balance read after
\* transfer_help has run.
transfer_fromAllowanceAfter(caller, from, to, value) ==
    LET from_balance == Balances[from] IN
    /\ call' = [op |-> "transfer_from", from |-> from, to |-> to, value |-> value]
    /\ IF from_balance < value
       THEN /\ ret' = "InSufficientAllowance"
            /\ UNCHANGED <<Balances, Allowance>>
       ELSE LET r == transfer_help(Balances, from, to, value) IN
            /\ Allowance' = [Allowance EXCEPT ![<<from, to>>] = Some(r.bal[from])]
            /\ Balances' = r.bal
            /\ ret' = r.err
    /\ UNCHANGED <<TotalSupply, free, reserved, Orders, NextOrderId>>

transfer_from(caller, from, to, value) ==
    LET from_balance == Balances[from] IN
    /\ call' = [op |-> "transfer_from", from |-> from, to |-> to, value |-> value]
    /\ IF from_balance < value
       THEN /\ ret' = "InSufficientAllowance"
            /\ UNCHANGED <<Balances, Allowance>>
       ELSE LET r == transfer_help(Balances, from, to, value) IN
            /\ Allowance' = [Allowance EXCEPT ![<<from, to>>] = Some(Sub(from_balance, value))]
            /\ Balances' = r.bal
            /\ ret' = r.err
    /\ UNCHANGED <<TotalSupply, free, reserved, Orders, NextOrderId>>

\* allowance adding value to the stored entry where the code overwrites it.
allowanceAdditive(who, spender, value) ==
    LET entry == Allowance[<<who, spender>>]
        old == IF entry.some THEN entry.val ELSE 0
    IN
    /\ call' = [op |-> "allowance", from |-> who, to |-> spender, value |-> value]
    /\ IF Balances[who] < value
       THEN /\ ret' = "InSufficientBalance"
            /\ UNCHANGED Allowance
       ELSE /\ ret' = "Ok"
            /\ Allowance' = [Allowance EXCEPT ![<<who, spender>>] = Some(Add(old, value))]
    /\ UNCHANGED <<TotalSupply, Balances, free, reserved, Orders, NextOrderId>>

allowance(who, spender, value) ==
    /\ call' = [op |-> "allowance", from |-> who, to |-> spender, value |-> value]
    /\ IF Balances[who] < value
       THEN /\ ret' = "InSufficientBalance"
            /\ UNCHANGED Allowance
       ELSE /\ ret' = "Ok"
            /\ Allowance' = [Allowance EXCEPT ![<<who, spender>>] = Some(value)]
    /\ UNCHANGED <<TotalSupply, Balances, free, reserved, Orders, NextOrderId>>

\* A dispatched call that counts against the MaxCalls budget.
Counted == ncalls < MaxCalls /\ ncalls' = ncalls + 1

AnyTransfer == \E who \in Accounts, to \in Accounts, value \in Amounts :
                   transfer(who, to, value)
AnyTransferFrom == \E caller \in Accounts, from \in Accounts, to \in Accounts,
                      value \in Amounts : transfer_from(caller, from, to, value)
AnyAllowance == \E who \in Accounts, spender \in Accounts, value \in Amounts :
                    allowance(who, spender, value)

Transfer == Counted /\ AnyTransfer
TransferFrom == Counted /\ AnyTransferFrom
Approve == Counted /\ AnyAllowance

\* State of the exchange and its currency right after construction.
ExchangeEmpty ==
    /\ free = [c \in Assets |-> [a \in Accounts |-> 0]]
    /\ reserved = [c \in Assets |-> [a \in Accounts |-> 0]]
    /\ Orders = [i \in OrderIds |-> None]
    /\ NextOrderId = 0

\* Genesis of the ledger: balances whose total is the total supply, a value
\* of T::Balance.
LedgerGenesis ==
    /\ Balances \in [Accounts -> Amounts]
    /\ SumOver(Balances, Accounts) <= BalanceMax
    /\ TotalSupply = SumOver(Balances, Accounts)
    /\ Allowance = [p \in Accounts \X Accounts |-> None]

InitLedger ==
    /\ LedgerGenesis
    /\ ExchangeEmpty
    /\ call = NoCall
    /\ ret = "Ok"
    /\ ncalls = 0

NextLedger == Transfer \/ TransferFrom \/ Approve

SpecLedger == InitLedger /\ [][NextLedger]_vars

\* --------------------------------------------- T::Currency (reservation store)
\* A currency state is [free, reserved], each asset -> account -> amount.
Currency == [free |-> free, reserved |-> reserved]

\* A transfer crediting the balance read before the debit, which mints amount
\* when from = to.
CurrencyTransferStaleRead(cur, cid, from, to, amount) ==
    IF cur.free[cid][from] < amount
    THEN [ok |-> FALSE, err |-> "InsufficientBalance", cur |-> cur]
    ELSE LET f1 == [cur.free EXCEPT ![cid][from] = Sub(@, amount)]
             f2 == [f1 EXCEPT ![cid][to] = Add(cur.free[cid][to], amount)]
         IN [ok |-> TRUE, err |-> "Ok", cur |-> [cur EXCEPT !.free = f2]]

\* MultiCurrency::transfer: a ledger-style transfer of the free balance.
CurrencyTransfer(cur, cid, from, to, amount) ==
    IF cur.free[cid][from] < amount
    THEN [ok |-> FALSE, err |-> "InsufficientBalance", cur |-> cur]
    ELSE LET f1 == [cur.free EXCEPT ![cid][from] = Sub(@, amount)]
             f2 == [f1 EXCEPT ![cid][to] = Add(@, amount)]
         IN [ok |-> TRUE, err |-> "Ok", cur |-> [cur EXCEPT !.free = f2]]

\* MultiReservableCurrency::reserve: free -> reserved of one account.
CurrencyReserve(cur, cid, who, amount) ==
    IF cur.free[cid][who] < amount
    THEN [ok |-> FALSE, err |-> "InsufficientBalance", cur |-> cur]
    ELSE [ok |-> TRUE, err |-> "Ok",
          cur |-> [free |-> [cur.free EXCEPT ![cid][who] = Sub(@, amount)],
                   reserved |-> [cur.reserved EXCEPT ![cid][who] = Add(@, amount)]]]

\* release: reserved -> free of one account.
CurrencyRelease(cur, cid, who, amount) ==
    IF cur.reserved[cid][who] < amount
    THEN [ok |-> FALSE, err |-> "InsufficientBalance", cur |-> cur]
    ELSE [ok |-> TRUE, err |-> "Ok",
          cur |-> [free |-> [cur.free EXCEPT ![cid][who] = Add(@, amount)],
                   reserved |-> [cur.reserved EXCEPT ![cid][who] = Sub(@, amount)]]]

\* MultiReservableCurrency::repatriate_reserved with BalanceStatus::Free:
\* moves what the reservation holds, up to amount, and returns the shortfall.
CurrencyRepatriate(cur, cid, slashed, beneficiary, amount) ==
    LET actual == Min(cur.reserved[cid][slashed], amount)
        r1 == [cur.reserved EXCEPT ![cid][slashed] = Sub(@, actual)]
        f1 == [cur.free EXCEPT ![cid][beneficiary] = Add(@, actual)]
    IN [ok |-> TRUE, err |-> "Ok", val |-> amount - actual,
        cur |-> [free |-> f1, reserved |-> r1]]

\* --------------------------------------------------------- exchange pallet
Order(bc, ba, tc, ta, who) ==
    [base_currency_id |-> bc, base_amount |-> ba,
     target_currency_id |-> tc, target_amount |-> ta, owner |-> who]

\* The slot of an order id holds a live order.
IsOrder(slot) == slot.some /\ slot.val.some

\* saturating_add in place of checked_add: the largest id is handed out again.
checked_add_oneSaturating(id) == Some(IF id = OrderIdMax THEN id ELSE id + 1)

\* OrderId::checked_add(&One::one()): None at the type's largest value.
checked_add_one(id) == IF id = OrderIdMax THEN None ELSE Some(id + 1)

\* submit_order reserving before it advances the id: on overflow the
\* reservation stays.
submit_orderReserveFirst(who, bc, ba, tc, ta) ==
    LET order_id == NextOrderId
        order == Order(bc, ba, tc, ta, who)
        next == checked_add_one(order_id)
        r == CurrencyReserve(Currency, bc, who, ba)
    IN
    /\ call' = [op |-> "submit_order", who |-> who, order_id |-> order_id]
    /\ IF ~r.ok
       THEN /\ ret' = r.err
            /\ UNCHANGED exchangeVars
       ELSE /\ free' = r.cur.free
            /\ reserved' = r.cur.reserved
            /\ IF ~next.some
               THEN /\ ret' = "OrderIdOverflow"
                    /\ UNCHANGED <<Orders, NextOrderId>>
               ELSE /\ ret' = "Ok"
                    /\ Orders' = [Orders EXCEPT ![order_id] = Some(Some(order))]
                    /\ NextOrderId' = next.val
    /\ UNCHANGED ledgerVars

\* submit_order storing the order without reserving the owner's funds.
submit_orderNoReserve(who, bc, ba, tc, ta) ==
    LET order_id == NextOrderId
        order == Order(bc, ba, tc, ta, who)
        next == checked_add_one(order_id)
    IN
    /\ call' = [op |-> "submit_order", who |-> who, order_id |-> order_id]
    /\ IF ~next.some
       THEN /\ ret' = "OrderIdOverflow"
            /\ UNCHANGED exchangeVars
       ELSE /\ ret' = "Ok"
            /\ UNCHANGED <<free, reserved>>
            /\ Orders' = [Orders EXCEPT ![order_id] = Some(Some(order))]
            /\ NextOrderId' = next.val
    /\ UNCHANGED ledgerVars

\* submit_order reserving target_amount where base_amount is meant.
submit_orderReservesTarget(who, bc, ba, tc, ta) ==
    LET order_id == NextOrderId
        order == Order(bc, ba, tc, ta, who)
        next == checked_add_one(order_id)
        r == CurrencyReserve(Currency, bc, who, ta)
    IN
    /\ call' = [op |-> "submit_order", who |-> who, order_id |-> order_id]
    /\ IF ~next.some
       THEN /\ ret' = "OrderIdOverflow"
            /\ UNCHANGED exchangeVars
       ELSE IF ~r.ok
       THEN /\ ret' = r.err
            /\ UNCHANGED exchangeVars
       ELSE /\ ret' = "Ok"
            /\ free' = r.cur.free
            /\ reserved' = r.cur.reserved
            /\ Orders' = [Orders EXCEPT ![order_id] = Some(Some(order))]
            /\ NextOrderId' = next.val
    /\ UNCHANGED ledgerVars

submit_order(who, bc, ba, tc, ta) ==
    LET order_id == NextOrderId
        order == Order(bc, ba, tc, ta, who)
        next == checked_add_one(order_id)
        r == CurrencyReserve(Currency, bc, who, ba)
    IN
    /\ call' = [op |-> "submit_order", who |-> who, order_id |-> order_id]
    /\ IF ~next.some
       THEN /\ ret' = "OrderIdOverflow"
            /\ UNCHANGED exchangeVars
       ELSE IF ~r.ok
       THEN /\ ret' = r.err
            /\ UNCHANGED exchangeVars
       ELSE /\ ret' = "Ok"
            /\ free' = r.cur.free
            /\ reserved' = r.cur.reserved
            /\ Orders' = [Orders EXCEPT ![order_id] = Some(Some(order))]
            /\ NextOrderId' = next.val
    /\ UNCHANGED ledgerVars

\* with_transaction_result: commit the staged currency state on Ok, roll it
\* back to the state before the closure on Err.
with_transaction_resultCommitAlways(before, r) == r.cur

with_transaction_result(before, r) == IF r.ok THEN r.cur ELSE before

\* The closure of take_order repatriating the reservation to the owner
\* instead of the taker.
take_closurePaysOwner(cur, who, order) ==
    LET t == CurrencyTransfer(cur, order.target_currency_id, who, order.owner,
                              order.target_amount)
        p == CurrencyRepatriate(t.cur, order.base_currency_id, order.owner,
                                order.owner, order.base_amount)
    IN IF ~t.ok THEN [ok |-> FALSE, err |-> t.err, cur |-> t.cur]
       ELSE IF p.val # 0 THEN [ok |-> FALSE, err |-> "InsufficientBalance", cur |-> p.cur]
       ELSE [ok |-> TRUE, err |-> "Ok", cur |-> p.cur]

\* The closure of take_order run on a live order.
\* take_order's closure repatriating target_amount where base_amount is meant.
take_closureRepatriatesTarget(cur, who, order) ==
    LET t == CurrencyTransfer(cur, order.target_currency_id, who, order.owner,
                              order.target_amount)
        p == CurrencyRepatriate(t.cur, order.base_currency_id, order.owner, who,
                                order.target_amount)
    IN IF ~t.ok THEN [ok |-> FALSE, err |-> t.err, cur |-> t.cur]
       ELSE IF p.val # 0 THEN [ok |-> FALSE, err |-> "InsufficientBalance", cur |-> p.cur]
       ELSE [ok |-> TRUE, err |-> "Ok", cur |-> p.cur]

take_closure(cur, who, order) ==
    LET t == CurrencyTransfer(cur, order.target_currency_id, who, order.owner,
                              order.target_amount)
        p == CurrencyRepatriate(t.cur, order.base_currency_id, order.owner, who,
                                order.base_amount)
    IN IF ~t.ok THEN [ok |-> FALSE, err |-> t.err, cur |-> t.cur]
       ELSE IF p.val # 0 THEN [ok |-> FALSE, err |-> "InsufficientBalance", cur |-> p.cur]
       ELSE [ok |-> TRUE, err |-> "Ok", cur |-> p.cur]

\* take_order refusing the order's own owner.
take_orderRejectsOwner(who, order_id) ==
    LET slot == Orders[order_id] IN
    /\ call' = [op |-> "take_order", who |-> who, order_id |-> order_id]
    /\ IF ~slot.some
       THEN /\ ret' = "InvalidOrderId"
            /\ UNCHANGED exchangeVars
       ELSE IF ~slot.val.some
       THEN /\ ret' = "OrderIsNone"
            /\ UNCHANGED exchangeVars
       ELSE IF slot.val.val.owner = who
       THEN /\ ret' = "NotOwner"
            /\ UNCHANGED exchangeVars
       ELSE LET r == take_closure(Currency, who, slot.val.val)
                after == with_transaction_result(Currency, r)
            IN /\ ret' = r.err
               /\ free' = after.free
               /\ reserved' = after.reserved
               /\ Orders' = IF r.ok THEN [Orders EXCEPT ![order_id] = None]
                             ELSE Orders
               /\ UNCHANGED NextOrderId
    /\ UNCHANGED ledgerVars

take_order(who, order_id) ==
    LET slot == Orders[order_id] IN
    /\ call' = [op |-> "take_order", who |-> who, order_id |-> order_id]
    /\ IF ~slot.some
       THEN /\ ret' = "InvalidOrderId"
            /\ UNCHANGED exchangeVars
       ELSE IF ~slot.val.some
       THEN /\ ret' = "OrderIsNone"
            /\ UNCHANGED exchangeVars
       ELSE LET r == take_closure(Currency, who, slot.val.val)
                after == with_transaction_result(Currency, r)
            IN /\ ret' = r.err
               /\ free' = after.free
               /\ reserved' = after.reserved
               /\ Orders' = IF r.ok THEN [Orders EXCEPT ![order_id] = None]
                             ELSE Orders
               /\ UNCHANGED NextOrderId
    /\ UNCHANGED ledgerVars

\* cancel_order leaving the cancelled order in storage.
cancel_orderKeepsOrder(who, order_id) ==
    LET slot == Orders[order_id] IN
    /\ call' = [op |-> "cancel_order", who |-> who, order_id |-> order_id]
    /\ ret' = IF ~slot.some THEN "InvalidOrderId"
              ELSE IF ~slot.val.some THEN "OrderIsNone"
              ELSE IF slot.val.val.owner # who THEN "NotOwner"
              ELSE "Ok"
    /\ UNCHANGED <<Orders, free, reserved, NextOrderId, ledgerVars>>

\* cancel_order removing the order before the owner check, with no rollback.
cancel_orderTakeFirst(who, order_id) ==
    LET slot == Orders[order_id] IN
    /\ call' = [op |-> "cancel_order", who |-> who, order_id |-> order_id]
    /\ ret' = IF ~slot.some THEN "InvalidOrderId"
              ELSE IF ~slot.val.some THEN "OrderIsNone"
              ELSE IF slot.val.val.owner # who THEN "NotOwner"
              ELSE "Ok"
    /\ Orders' = [Orders EXCEPT ![order_id] = None]
    /\ UNCHANGED <<free, reserved, NextOrderId, ledgerVars>>

\* cancel_order releasing the order's reservation back to the owner.
cancel_orderReleases(who, order_id) ==
    LET slot == Orders[order_id] IN
    /\ call' = [op |-> "cancel_order", who |-> who, order_id |-> order_id]
    /\ IF ~slot.some
       THEN /\ ret' = "InvalidOrderId"
            /\ UNCHANGED <<Orders, free, reserved>>
       ELSE IF ~slot.val.some
       THEN /\ ret' = "OrderIsNone"
            /\ UNCHANGED <<Orders, free, reserved>>
       ELSE IF slot.val.val.owner # who
       THEN /\ ret' = "NotOwner"
            /\ UNCHANGED <<Orders, free, reserved>>
       ELSE LET r == CurrencyRelease(Currency, slot.val.val.base_currency_id, who,
                                     slot.val.val.base_amount)
            IN /\ ret' = "Ok"
               /\ free' = r.cur.free
               /\ reserved' = r.cur.reserved
               /\ Orders' = [Orders EXCEPT ![order_id] = None]
    /\ UNCHANGED <<NextOrderId, ledgerVars>>

cancel_order(who, order_id) ==
    LET slot == Orders[order_id] IN
    /\ call' = [op |-> "cancel_order", who |-> who, order_id |-> order_id]
    /\ IF ~slot.some
       THEN /\ ret' = "InvalidOrderId"
            /\ UNCHANGED Orders
       ELSE IF ~slot.val.some
       THEN /\ ret' = "OrderIsNone"
            /\ UNCHANGED Orders
       ELSE IF slot.val.val.owner # who
       THEN /\ ret' = "NotOwner"
            /\ UNCHANGED Orders
       ELSE /\ ret' = "Ok"
            /\ Orders' = [Orders EXCEPT ![order_id] = None]
    /\ UNCHANGED <<free, reserved, NextOrderId, ledgerVars>>

\* Another user of the same currency releases part of an account's reservation.
release(who, cid, amount) ==
    LET r == CurrencyRelease(Currency, cid, who, amount) IN
    /\ call' = [op |-> "release", who |-> who]
    /\ ret' = r.err
    /\ free' = r.cur.free
    /\ reserved' = r.cur.reserved
    /\ UNCHANGED <<Orders, NextOrderId, ledgerVars>>

AnySubmitOrder == \E who \in Accounts, bc \in Assets, ba \in OrderAmounts,
                     tc \in Assets, ta \in OrderAmounts :
                     submit_order(who, bc, ba, tc, ta)
AnyTakeOrder == \E who \in Accounts, order_id \in OrderIds : take_order(who, order_id)
AnyCancelOrder == \E who \in Accounts, order_id \in OrderIds :
                     cancel_order(who, order_id)
\* The environment releases one unit of an account's reservation of asset A.
AnyRelease == \E who \in Accounts : release(who, "A", 1)

SubmitOrder == AnySubmitOrder /\ UNCHANGED ncalls
TakeOrder == AnyTakeOrder /\ UNCHANGED ncalls
CancelOrder == AnyCancelOrder /\ UNCHANGED ncalls
Release == AnyRelease /\ UNCHANGED ncalls

\* The ledger right after construction: no balances, no allowances.
LedgerEmpty ==
    /\ TotalSupply = 0
    /\ Balances = [a \in Accounts |-> 0]
    /\ Allowance = [p \in Accounts \X Accounts |-> None]

\* Genesis of the currency: alice holds 2 of asset A and bob 2 of asset B;
\* nothing is reserved, there are no orders, the id counter is at zero.
Endowment(c, a) ==
    IF (c = "A" /\ a = "alice") \/ (c = "B" /\ a = "bob") THEN 2 ELSE 0

ExchangeGenesis ==
    /\ free = [c \in Assets |-> [a \in Accounts |-> Endowment(c, a)]]
    /\ reserved = [c \in Assets |-> [a \in Accounts |-> 0]]
    /\ Orders = [i \in OrderIds |-> None]
    /\ NextOrderId = 0

InitExchange ==
    /\ LedgerEmpty
    /\ ExchangeGenesis
    /\ call = NoCall
    /\ ret = "Ok"
    /\ ncalls = 0

NextExchange == SubmitOrder \/ TakeOrder \/ CancelOrder

SpecExchange == InitExchange /\ [][NextExchange]_vars

NextEnv == SubmitOrder \/ TakeOrder \/ Release

SpecEnv == InitExchange /\ [][NextEnv]_vars

\* Both pallets in one runtime, every call counted.
CountedTransfer == Counted /\ AnyTransfer
CountedTransferFrom == Counted /\ AnyTransferFrom
CountedSubmitOrder == Counted /\ AnySubmitOrder
CountedTakeOrder == Counted /\ AnyTakeOrder
CountedRelease == Counted /\ AnyRelease

InitAll == InitLedger \/ InitExchange

NextAll ==
    \/ CountedTransfer
    \/ CountedTransferFrom
    \/ CountedSubmitOrder
    \/ CountedTakeOrder
    \/ CountedRelease

SpecAll == InitAll /\ [][NextAll]_vars

\* ================================================================ properties
IsLive(id) == IsOrder(Orders[id])
OrderAt(id) == Orders[id].val.val
ConsumeOps == {"take_order", "cancel_order"}
ExchangeUnchanged ==
    /\ free' = free
    /\ reserved' = reserved
    /\ Orders' = Orders
    /\ NextOrderId' = NextOrderId

\* C1: a take_order or cancel_order that directly follows a successful
\* take_order or cancel_order of the same id returns OrderIsNone, and
\* InvalidOrderId is returned only for ids submit_order never issued.
C1_SecondCallOrderIsNone ==
    [][ /\ ( /\ call.op \in ConsumeOps
             /\ ret = "Ok"
             /\ call'.op \in ConsumeOps
             /\ call'.order_id = call.order_id )
           => ret' = "OrderIsNone"
        /\ ( call'.op \in ConsumeOps /\ ret' = "InvalidOrderId" )
           => call'.order_id >= NextOrderId ]_vars

\* C2: a take_order that fails, for whatever reason, leaves every free
\* balance, every reserved balance, the orders and the id counter as they
\* were before the call.
C2_TakeOrderAllOrNothing ==
    [][ (call'.op = "take_order" /\ ret' # "Ok") => ExchangeUnchanged ]_vars

\* A take_order has failed on the repatriation shortfall: the taker could pay
\* the first leg, the owner's reservation does not cover base_amount.
C2_Witness ==
    /\ call.op = "take_order"
    /\ ret = "InsufficientBalance"
    /\ IsLive(call.order_id)
    /\ LET o == OrderAt(call.order_id) IN
       /\ call.who # o.owner
       /\ free[o.target_currency_id][call.who] >= o.target_amount
       /\ reserved[o.base_currency_id][o.owner] < o.base_amount

\* C3: no transfer or transfer_from call, successful or failing, changes
\* the sum of the ledger's balances over all accounts.
C3_Conservation ==
    [][ SumOver(Balances', Accounts) = SumOver(Balances, Accounts) ]_vars

\* A transfer or transfer_from has moved a positive amount between two
\* different accounts.
C3_Witness ==
    /\ call.op \in {"transfer", "transfer_from"}
    /\ ret = "Ok"
    /\ call.value > 0
    /\ call.from # call.to

\* C4: a successful take_order by a taker other than the owner moves
\* target_amount of the target asset from the taker's free balance to the
\* owner's, moves base_amount of the base asset from the owner's reserved
\* balance to the taker's free balance, removes the order, and changes no
\* other balance, no other order and not the id counter.
C4_TakeOrderEffect ==
    [][ ( /\ call'.op = "take_order"
          /\ ret' = "Ok"
          /\ IsLive(call'.order_id)
          /\ OrderAt(call'.order_id).owner # call'.who )
        => LET o == OrderAt(call'.order_id)
               taker == call'.who
               f1 == [free EXCEPT ![o.target_currency_id][taker] = @ - o.target_amount]
               f2 == [f1 EXCEPT ![o.target_currency_id][o.owner] = @ + o.target_amount]
               f3 == [f2 EXCEPT ![o.base_currency_id][taker] = @ + o.base_amount]
           IN /\ free' = f3
              /\ reserved' = [reserved EXCEPT
                                 ![o.base_currency_id][o.owner] = @ - o.base_amount]
              /\ Orders' = [Orders EXCEPT ![call'.order_id] = None]
              /\ NextOrderId' = NextOrderId ]_vars

\* The only order issued so far, alice's offer of asset A for asset B, has
\* just been taken by bob.
C4_Witness ==
    /\ call.op = "take_order"
    /\ ret = "Ok"
    /\ call.who = "bob"
    /\ NextOrderId = 1
    /\ free["A"]["bob"] > 0
    /\ free["B"]["alice"] > 0

\* C5: a submit_order that fails with OrderIdOverflow or InsufficientBalance
\* changes neither the id counter nor the orders nor any free or reserved
\* balance; with the counter at its largest value it fails with
\* OrderIdOverflow.
C5_SubmitOrderAtomic ==
    [][ call'.op = "submit_order" =>
          /\ ret' \in {"OrderIdOverflow", "InsufficientBalance"} => ExchangeUnchanged
          /\ NextOrderId = OrderIdMax => ret' = "OrderIdOverflow" ]_vars

\* A submit_order has failed on the exhausted counter although its owner
\* could have paid the reservation.
C5_Witness ==
    /\ call.op = "submit_order"
    /\ ret = "OrderIdOverflow"
    /\ NextOrderId = OrderIdMax
    /\ \E c \in Assets : free[c][call.who] > 0

\* C6: the id counter starts at zero; a successful submit_order stores its
\* order under the counter's value, in a slot that held nothing, and advances
\* the counter by exactly one; every other call leaves the counter alone.
C6_IdsMonotonic ==
    /\ NextOrderId = 0
    /\ [][ IF call'.op = "submit_order" /\ ret' = "Ok"
           THEN /\ call'.order_id = NextOrderId
                /\ ~Orders[NextOrderId].some
                /\ IsOrder(Orders'[NextOrderId])
                /\ NextOrderId' = NextOrderId + 1
           ELSE NextOrderId' = NextOrderId ]_vars

\* Two orders have been issued, the later one under the larger id, while the
\* first is still live.
C6_Witness ==
    /\ call.op = "submit_order"
    /\ ret = "Ok"
    /\ call.order_id = 1
    /\ NextOrderId = 2
    /\ IsLive(0)
    /\ IsLive(1)

\* An order id is consumed: it was issued and is no longer live, or the last
\* call took or cancelled it successfully.
Consumed(i) ==
    \/ i < NextOrderId /\ ~IsLive(i)
    \/ call.op \in ConsumeOps /\ ret = "Ok" /\ call.order_id = i

\* C7: once an order id is consumed, no take_order or cancel_order of that
\* id succeeds and the id holds no live order again.
C7_ConsumedAtMostOnce ==
    [][ \A i \in OrderIds :
          Consumed(i) =>
            /\ ~IsOrder(Orders'[i])
            /\ ~(call'.op \in ConsumeOps /\ call'.order_id = i /\ ret' = "Ok") ]_vars

\* A take_order or cancel_order of an already consumed id has been refused
\* after a later order was submitted.
C7_Witness ==
    /\ call.op \in ConsumeOps
    /\ ret # "Ok"
    /\ call.order_id = 0
    /\ NextOrderId = 2
    /\ ~IsLive(0)
    /\ IsLive(1)

\* C8: cancel_order of a live order by anyone but its owner fails with
\* NotOwner and changes no order, no balance and not the id counter.
C8_CancelNotOwner ==
    [][ ( /\ call'.op = "cancel_order"
          /\ IsLive(call'.order_id)
          /\ OrderAt(call'.order_id).owner # call'.who )
        => ret' = "NotOwner" /\ ExchangeUnchanged ]_vars

\* A cancel_order by a non-owner has been refused and the order is live.
C8_Witness ==
    /\ call.op = "cancel_order"
    /\ ret = "NotOwner"
    /\ IsLive(call.order_id)
    /\ OrderAt(call.order_id).owner # call.who

\* C9: transfer fails with InSufficientBalance and changes no balance when
\* the sender holds less than the amount; otherwise it succeeds, debits the
\* sender and credits the receiver by the amount, leaving every other
\* balance alone; it never changes an allowance; a sufficient transfer to
\* oneself leaves the balance as it was.
C9_TransferEffect ==
    [][ call'.op = "transfer" =>
          LET from == call'.from
              to == call'.to
              value == call'.value
              b1 == [Balances EXCEPT ![from] = @ - value]
              b2 == [b1 EXCEPT ![to] = @ + value]
          IN /\ Allowance' = Allowance
             /\ IF Balances[from] < value
                THEN ret' = "InSufficientBalance" /\ Balances' = Balances
                ELSE /\ ret' = "Ok"
                     /\ Balances' = b2
                     /\ from = to => Balances' = Balances ]_vars

\* A sufficient transfer of a positive amount to oneself has succeeded.
C9_Witness ==
    /\ call.op = "transfer"
    /\ ret = "Ok"
    /\ call.from = call.to
    /\ call.value > 0

\* C10: no ledger balance, no allowance written by transfer_from, no free
\* and no reserved balance is ever negative.
C10_NonNegative ==
    /\ \A a \in Accounts : Balances[a] >= 0
    /\ \A p \in Accounts \X Accounts : Allowance[p].some => Allowance[p].val >= 0
    /\ \A c \in Assets, a \in Accounts : free[c][a] >= 0 /\ reserved[c][a] >= 0

\* An order has been settled: reserve, transfer and repatriate have each
\* subtracted, and the owner's reservation is used up.
C10_Witness ==
    /\ call.op = "take_order"
    /\ ret = "Ok"
    /\ \A c \in Assets, a \in Accounts : reserved[c][a] = 0

\* C11: a successful submit_order(who, bc, ba, tc, ta) stores the order with
\* exactly these fields and owner who under the counter's pre-call value,
\* moves ba of bc from who's free to who's reserved balance, advances the
\* counter by one, and changes no other order and no other balance.
C11_SubmitOrderEffect ==
    [][ (call'.op = "submit_order" /\ ret' = "Ok") =>
          \A bc \in Assets, ba \in OrderAmounts, tc \in Assets, ta \in OrderAmounts :
            submit_order(call'.who, bc, ba, tc, ta) =>
              /\ call'.order_id = NextOrderId
              /\ Orders' = [Orders EXCEPT
                               ![NextOrderId] = Some(Some(Order(bc, ba, tc, ta, call'.who)))]
              /\ free' = [free EXCEPT ![bc][call'.who] = @ - ba]
              /\ reserved' = [reserved EXCEPT ![bc][call'.who] = @ + ba]
              /\ NextOrderId' = NextOrderId + 1 ]_vars

\* A second order has been stored next to a live order of another owner, for
\* amounts that differ between its two legs.
C11_Witness ==
    /\ call.op = "submit_order"
    /\ ret = "Ok"
    /\ call.order_id = 1
    /\ IsLive(0)
    /\ IsLive(1)
    /\ OrderAt(0).owner # OrderAt(1).owner
    /\ OrderAt(1).owner = call.who
    /\ OrderAt(1).base_amount # OrderAt(1).target_amount
    /\ reserved[OrderAt(1).base_currency_id][call.who] >= OrderAt(1).base_amount

\* C12: transfer_from succeeds exactly when the balance of from is at least
\* value, whoever calls it and whatever the allowance table holds; a failing
\* call returns InSufficientAllowance and changes no storage.
C12_TransferFromGate ==
    [][ call'.op = "transfer_from" =>
          /\ (ret' = "Ok") <=> (Balances[call'.from] >= call'.value)
          /\ ret' # "Ok" => ret' = "InSufficientAllowance" /\ UNCHANGED ledgerVars ]_vars

\* The first call ever made is a transfer_from of a positive value between two
\* accounts: it succeeded with no allowance entry in storage.
C12_Witness ==
    /\ ncalls = 1
    /\ call.op = "transfer_from"
    /\ ret = "Ok"
    /\ call.value > 0
    /\ call.from # call.to

\* C13: allowance(who, spender, value), the approve call, fails with
\* InSufficientBalance and leaves the allowance table unchanged when the
\* balance of who is below value; otherwise it sets the entry (who, spender)
\* to exactly value and no other entry.  It never changes a balance.
C13_ApproveEffect ==
    [][ call'.op = "allowance" =>
          /\ Balances' = Balances
          /\ TotalSupply' = TotalSupply
          /\ IF Balances[call'.from] < call'.value
             THEN ret' = "InSufficientBalance" /\ Allowance' = Allowance
             ELSE /\ ret' = "Ok"
                  /\ Allowance' = [Allowance EXCEPT
                                     ![<<call'.from, call'.to>>] = Some(call'.value)] ]_vars

\* A second call approved a positive value below the owner's balance while
\* another allowance entry is in storage.
C13_Witness ==
    /\ ncalls = 2
    /\ call.op = "allowance"
    /\ ret = "Ok"
    /\ call.value > 0
    /\ call.value < Balances[call.from]
    /\ Allowance[<<call.from, call.to>>] = Some(call.value)
    /\ \E k \in DOMAIN Allowance : k # <<call.from, call.to>> /\ Allowance[k].some

\* C14: a successful transfer_from sets the allowance entry (from, to) to the
\* pre-call balance of from minus value, which for from # to is the post-call
\* balance of from, changes no other entry, and changes the balances exactly
\* as transfer_help(from, to, value) does.
C14_TransferFromEffect ==
    [][ (call'.op = "transfer_from" /\ ret' = "Ok") =>
          LET from == call'.from
              to == call'.to
              value == call'.value
          IN
          /\ Allowance' = [Allowance EXCEPT ![<<from, to>>] = Some(Balances[from] - value)]
          /\ from # to => Allowance'[<<from, to>>] = Some(Balances'[from])
          /\ Balances' = IF from = to THEN Balances
                         ELSE [Balances EXCEPT ![from] = @ - value, ![to] = @ + value]
          /\ TotalSupply' = TotalSupply ]_vars

\* An account moved a positive value to itself: its allowance to itself is
\* below its unchanged balance.
C14_Witness ==
    /\ call.op = "transfer_from"
    /\ ret = "Ok"
    /\ call.from = call.to
    /\ call.value > 0
    /\ Allowance[<<call.from, call.to>>] = Some(Balances[call.from] - call.value)

\* C15: a successful cancel_order removes the cancelled order and changes
\* nothing else: every free balance, every reserved balance, the owner's
\* reservation of base_amount included, and the id counter stay as they were.
C15_CancelOrderFrame ==
    [][ (call'.op = "cancel_order" /\ ret' = "Ok") =>
          /\ IsLive(call'.order_id)
          /\ Orders' = [Orders EXCEPT ![call'.order_id] = None]
          /\ free' = free
          /\ reserved' = reserved
          /\ NextOrderId' = NextOrderId
          /\ LET o == OrderAt(call'.order_id) IN
             reserved'[o.base_currency_id][o.owner] >= o.base_amount ]_vars

\* The only order ever submitted has been cancelled by its owner, whose
\* reservation is still in place.
C15_Witness ==
    /\ call.op = "cancel_order"
    /\ ret = "Ok"
    /\ NextOrderId = 1
    /\ ~IsLive(0)
    /\ \E c \in Assets : reserved[c][call.who] > 0

\* Sum of base_amount over the live orders with an id up to n of account a
\* with base asset c.
RECURSIVE LiveReservedUpTo(_, _, _)
LiveReservedUpTo(c, a, n) ==
    IF n < 0 THEN 0
    ELSE (IF IsLive(n) /\ OrderAt(n).owner = a /\ OrderAt(n).base_currency_id = c
          THEN OrderAt(n).base_amount ELSE 0) + LiveReservedUpTo(c, a, n - 1)

\* Sum of base_amount over the live orders of account a with base asset c.
LiveReserved(c, a) == LiveReservedUpTo(c, a, OrderIdMax)

\* What account a holds reserved of asset c beyond its live orders.
CancelledReserved(c, a) == reserved[c][a] - LiveReserved(c, a)

\* The base_amount a step adds to the cancelled orders of account a with base
\* asset c: that of the order a successful cancel_order removes.
CancelledBy(c, a) ==
    IF /\ call'.op = "cancel_order"
       /\ ret' = "Ok"
       /\ OrderAt(call'.order_id).owner = a
       /\ OrderAt(call'.order_id).base_currency_id = c
    THEN OrderAt(call'.order_id).base_amount
    ELSE 0

\* C16: from the genesis with no orders and no reservation, every step keeps
\* reserved = (sum over live orders) + (sum over cancelled orders): the part
\* of a reservation not backing a live order starts at zero, grows by
\* base_amount when the account cancels an order with that base asset, and
\* changes in no other step, so it never decreases.  (A step that leaves
\* reserved and Orders as they are leaves that part as it is, so for such a
\* step the equation says that nothing was cancelled.)
C16_ReservedAccounting ==
    /\ \A c \in Assets, a \in Accounts : CancelledReserved(c, a) = 0
    /\ [][ \A c \in Assets, a \in Accounts :
             IF reserved' = reserved /\ Orders' = Orders
             THEN CancelledBy(c, a) = 0
             ELSE CancelledReserved(c, a)' = CancelledReserved(c, a) + CancelledBy(c, a) ]_vars

\* An account holds a reservation that covers one live order and one
\* cancelled order.
C16_Witness ==
    \E c \in Assets, a \in Accounts :
        /\ LiveReserved(c, a) > 0
        /\ CancelledReserved(c, a) > 0

\* C17: while only submit_order, take_order and cancel_order change
\* reservations, the owner's reservation covers every live order, so
\* take_order of a live order succeeds exactly when the taker's free balance
\* of the target asset is at least target_amount; the zero-shortfall check
\* never fails.
C17_NoShortfall ==
    [][ (call'.op = "take_order" /\ IsLive(call'.order_id)) =>
          LET o == OrderAt(call'.order_id) IN
          /\ reserved[o.base_currency_id][o.owner] >= o.base_amount
          /\ (ret' = "Ok") <=> (free[o.target_currency_id][call'.who] >= o.target_amount) ]_vars

\* A taker other than the owner has taken order 0 while the owner's
\* reservation still backs order 1 for the same base asset.
C17_Witness ==
    /\ call.op = "take_order"
    /\ ret = "Ok"
    /\ call.order_id = 0
    /\ IsLive(1)
    /\ OrderAt(1).owner # call.who
    /\ reserved[OrderAt(1).base_currency_id][OrderAt(1).owner] = OrderAt(1).base_amount
    /\ free[OrderAt(1).base_currency_id][call.who] > 0

\* Free plus reserved balance of asset c over all accounts.
TotalIssuance(c) == SumOver([a \in Accounts |-> free[c][a] + reserved[c][a]], Accounts)

\* What the genesis endows all accounts with of asset c.
GenesisIssuance(c) == SumOver([a \in Accounts |-> Endowment(c, a)], Accounts)

\* C18: in every state the order book reaches, through successful or failing
\* calls, each asset's total of free plus reserved balances over all accounts
\* is what it was at genesis.
C18_FundsConserved ==
    \A c \in Assets : TotalIssuance(c) = GenesisIssuance(c)

\* Funds of both assets have changed hands and part of an asset is held
\* reserved after an order was cancelled.
C18_Witness ==
    /\ free["A"]["bob"] > 0
    /\ free["B"]["alice"] > 0
    /\ \E c \in Assets, a \in Accounts : CancelledReserved(c, a) > 0

\* C19: take_order by the owner of a live order succeeds whenever the owner's
\* free balance of the target asset is at least target_amount; the transfer
\* to itself leaves that balance as it was, base_amount moves from the
\* owner's reserved to the owner's free balance of the base asset, and the
\* order is removed.
C19_OwnerTakesOwnOrder ==
    [][ ( /\ call'.op = "take_order"
          /\ IsLive(call'.order_id)
          /\ OrderAt(call'.order_id).owner = call'.who
          /\ free[OrderAt(call'.order_id).target_currency_id][call'.who]
               >= OrderAt(call'.order_id).target_amount )
        => LET o == OrderAt(call'.order_id) IN
           /\ ret' = "Ok"
           /\ free' = [free EXCEPT ![o.base_currency_id][o.owner] = @ + o.base_amount]
           /\ reserved' = [reserved EXCEPT ![o.base_currency_id][o.owner] = @ - o.base_amount]
           /\ Orders' = [Orders EXCEPT ![call'.order_id] = None]
           /\ NextOrderId' = NextOrderId ]_vars

\* alice has taken the only order ever submitted and every balance is back at
\* its genesis value: the order was her own.
C19_Witness ==
    /\ call.op = "take_order"
    /\ ret = "Ok"
    /\ call.who = "alice"
    /\ NextOrderId = 1
    /\ \A c \in Assets, a \in Accounts : free[c][a] = Endowment(c, a) /\ reserved[c][a] = 0

====
